---- MODULE Spec2Model ----
(***************************************************************************)
(* Central-Monitoramento: the check -> persist -> detect -> alert pipeline *)
(* of main.py (MonitoringSystem), the probe of monitor.py (SiteMonitor),   *)
(* the two tables of database.py (MonitoringDB) and the dispatcher of      *)
(* notifications.py (NotificationManager).                                 *)
(*                                                                         *)
(* Python's None is the empty tuple <<>>, a present value v is <<v>>.      *)
(* response_time is kept in microseconds (the code holds a float number of *)
(* milliseconds with microsecond resolution); error_message is the list of *)
(* the text parts the code concatenates, <<>> for None.                    *)
(***************************************************************************)
EXTENDS Integers, Sequences, FiniteSets, TLC

VARIABLES
    sites,            \* MonitoringSystem.sites: the list loaded from sites.json
    retry_count,      \* SiteMonitor.retry_count
    channels,         \* the notification channels whose credentials are configured
    passes_left,      \* how many more times check_all_sites will be invoked
    now,              \* the wall clock, in seconds (CURRENT_TIMESTAMP resolution)
    pc,               \* position inside check_all_sites
    i,                \* index in sites of the site being processed
    result,           \* the result dict of the check_site call in progress / last returned
    outcomes,         \* what each request of the check_site call in progress met
    monitoring_logs,  \* table monitoring_logs, in rowid order
    alerts,           \* table alerts, in rowid order
    history,          \* check_state_change's local list `history` (rowids), last call
    dispatched,       \* every call of MonitoringSystem.send_alert so far
    pass_log,         \* the current pass: check_site calls and per-site log lines
    scheduler,        \* the BlockingScheduler of run_scheduler ("none": run_once)
    daily_report,     \* the job generate_daily_report: its position and what it logged
    earlier_run       \* what an earlier run of the same deployment stored and dispatched

vars == <<sites, retry_count, channels, passes_left, now, pc, i, result, outcomes,
          monitoring_logs, alerts, history, dispatched, pass_log, scheduler,
          daily_report, earlier_run>>

-----------------------------------------------------------------------------
(* Bounds of the model *)

MaxPasses == 3
MaxSslPasses == 2
MaxTime == 1
MaxRetry == 3
MaxOpsPasses == 2
MaxReportRuns == 2
MaxReportPasses == 1
MaxTwinPasses == 2

(* Program constants *)

DefaultExpectedStatus == 200
DefaultMaxResponseTime == 5000
MicrosPerMilli == 1000
SslAnnotateBelow == 30
SslWarnUpTo == 30
TransitionHistoryLimit == 2
Timeout == 30
SslConnectTimeout == 10
ReportDays == 1

None == <<>>
Some(v) == <<v>>

Min(a, b) == IF a <= b THEN a ELSE b
Range(f) == {f[x] : x \in DOMAIN f}
Last(s) == s[Len(s)]

-----------------------------------------------------------------------------
(* Site configurations (entries of sites.json) and what the network can    *)
(* answer for each host.                                                   *)

SiteA == [name |-> "A", url |-> [scheme |-> "https", host |-> "a"],
          expected_status |-> Some(200), max_response_time |-> Some(2000),
          check_ssl |-> None]
SiteB == [name |-> "B", url |-> [scheme |-> "http", host |-> "b"],
          expected_status |-> None, max_response_time |-> None,
          check_ssl |-> Some(FALSE)]
SiteS == [name |-> "S", url |-> [scheme |-> "https", host |-> "s"],
          expected_status |-> Some(200), max_response_time |-> Some(2000),
          check_ssl |-> Some(TRUE)]
SiteC == [name |-> "C", url |-> [scheme |-> "http", host |-> "c"],
          expected_status |-> None, max_response_time |-> None,
          check_ssl |-> None]
SiteN == [name |-> "N", url |-> [scheme |-> "https", host |-> "n"],
          expected_status |-> None, max_response_time |-> None,
          check_ssl |-> Some(TRUE)]
SiteP1 == [name |-> "P", url |-> [scheme |-> "https", host |-> "p"],
           expected_status |-> Some(200), max_response_time |-> Some(2000),
           check_ssl |-> Some(TRUE)]
SiteP2 == [name |-> "P", url |-> [scheme |-> "https", host |-> "p"],
           expected_status |-> None, max_response_time |-> None,
           check_ssl |-> None]
SiteP3 == [name |-> "P", url |-> [scheme |-> "http", host |-> "p"],
           expected_status |-> Some(500), max_response_time |-> None,
           check_ssl |-> Some(TRUE)]

ProbeConfigs == {SiteP1, SiteP2, SiteP3}

\* status codes, latencies (microseconds), transport errors (the id of the
\* exception text) and certificate outcomes (None: the TLS probe failed)
Net(host) ==
    CASE host = "a" -> [status |-> {200, 500}, latency |-> {150000},
                        errors |-> {1}, ssl |-> {None}]
      [] host = "b" -> [status |-> {200}, latency |-> {150000},
                        errors |-> {}, ssl |-> {None}]
      [] host = "s" -> [status |-> {200, 500}, latency |-> {150000},
                        errors |-> {1}, ssl |-> {None, Some(-1), Some(30), Some(31)}]
      [] host = "c" -> [status |-> {200}, latency |-> {150000},
                        errors |-> {1}, ssl |-> {None}]
      [] host = "n" -> [status |-> {200, 500}, latency |-> {150000},
                        errors |-> {1}, ssl |-> {None, Some(10)}]
      [] OTHER      -> [status |-> {200, 500},
                        latency |-> {150000, 2000000, 2000400, 5000600, 25000000},
                        errors |-> {1, 2}, ssl |-> {None, Some(10), Some(45)}]

-----------------------------------------------------------------------------
(* monitor.py: SiteMonitor.check_site *)

\* f"{response_time:.0f}": a float of milliseconds rounded half-to-even
Fmt0f(us) ==
    LET q == us \div MicrosPerMilli
        r == us % MicrosPerMilli
    IN  IF 2 * r > MicrosPerMilli THEN q + 1
        ELSE IF 2 * r < MicrosPerMilli THEN q
        ELSE IF q % 2 = 0 THEN q ELSE q + 1

StatusPart(code, us) == [k |-> "status", a |-> code, b |-> Fmt0f(us)]
ExcPart(e) == [k |-> "exc", a |-> e, b |-> 0]
SslPart(days) == [k |-> "ssl", a |-> days, b |-> 0]

ExpectedStatus(cfg) ==
    IF cfg.expected_status = None THEN DefaultExpectedStatus ELSE cfg.expected_status[1]
MaxResponseTime(cfg) ==
    IF cfg.max_response_time = None THEN DefaultMaxResponseTime
    ELSE cfg.max_response_time[1]
CheckSsl(cfg) == IF cfg.check_ssl = None THEN FALSE ELSE cfg.check_ssl[1]

InitResult(cfg) ==
    [name |-> cfg.name, url |-> cfg.url, is_up |-> FALSE, status_code |-> None,
     response_time |-> None, ssl_days_remaining |-> None, error_message |-> None]

\* line 59: the status is the expected one and the latency is within the maximum
EvaluateIgnoringLatency(cfg, code, us) == code = ExpectedStatus(cfg)
Evaluate(cfg, code, us) ==
    code = ExpectedStatus(cfg) /\ us <= MaxResponseTime(cfg) * MicrosPerMilli

\* lines 52-62: a response was received
OnResponse(res, cfg, code, us) ==
    LET r1 == [res EXCEPT !.response_time = Some(us), !.status_code = Some(code)]
    IN  IF Evaluate(cfg, code, us)
        THEN [r1 EXCEPT !.is_up = TRUE]
        ELSE [r1 EXCEPT !.error_message = <<StatusPart(code, us)>>]

\* _check_ssl_expiry: the outcomes for a url; None silently for a non-https url
check_ssl_expiry(url) ==
    IF url.scheme # "https" THEN {None} ELSE Net(url.host).ssl

\* lines 65-73: the TLS-expiry sub-step, given what _check_ssl_expiry returned
OnSslMarksExpiringDown(res, cfg, ssl_days) ==
    IF ~CheckSsl(cfg) THEN res
    ELSE LET r1 == [res EXCEPT !.ssl_days_remaining = ssl_days]
         IN  IF ssl_days # None /\ ssl_days[1] < SslAnnotateBelow
             THEN [r1 EXCEPT !.is_up = FALSE,
                             !.error_message = @ \o <<SslPart(ssl_days[1])>>]
             ELSE r1
OnSslAnnotatingThroughThirty(res, cfg, ssl_days) ==
    IF ~CheckSsl(cfg) THEN res
    ELSE LET r1 == [res EXCEPT !.ssl_days_remaining = ssl_days]
         IN  IF ssl_days # None /\ ssl_days[1] <= SslWarnUpTo
             THEN IF r1.is_up
                  THEN [r1 EXCEPT !.error_message = <<SslPart(ssl_days[1])>>]
                  ELSE [r1 EXCEPT !.error_message = @ \o <<SslPart(ssl_days[1])>>]
             ELSE r1
OnSsl(res, cfg, ssl_days) ==
    IF ~CheckSsl(cfg) THEN res
    ELSE LET r1 == [res EXCEPT !.ssl_days_remaining = ssl_days]
         IN  IF ssl_days # None /\ ssl_days[1] < SslAnnotateBelow
             THEN IF r1.is_up
                  THEN [r1 EXCEPT !.error_message = <<SslPart(ssl_days[1])>>]
                  ELSE [r1 EXCEPT !.error_message = @ \o <<SslPart(ssl_days[1])>>]
             ELSE r1

\* lines 77-78: a transport error
OnTransportErrorKeepFirst(res, e) ==
    IF res.error_message = None THEN [res EXCEPT !.error_message = <<ExcPart(e)>>] ELSE res
OnTransportError(res, e) == [res EXCEPT !.error_message = <<ExcPart(e)>>]

\* line 28: another iteration of `for attempt in range(self.retry_count)`
MoreAttempts(done, count) == done < count

Cfg == sites[i]

\* how long the calls of one attempt block, in microseconds. A request that
\* raises: error 1 is a refused connection (at once), error 2 a timeout (line 44:
\* after self.timeout seconds). The certificate probe: an inspected certificate
\* comes at once, a failed probe after the connection timeout of line 97
ErrorTime(e) == IF e = 2 THEN Timeout * 1000 * MicrosPerMilli ELSE 0
TlsTime(url, ssl_days) ==
    IF url.scheme = "https" /\ ssl_days = None
    THEN SslConnectTimeout * 1000 * MicrosPerMilli ELSE 0

\* lines 65-66, 93-98: the attempt opened the TLS connection to read the certificate
TlsInspected(cfg) == CheckSsl(cfg) /\ cfg.url.scheme = "https"

\* line 75: where check_site goes after an attempt that received a response
\* (attempts: the number of attempts made so far)
AfterResponseRetryingWhenDown(res, attempts) ==
    IF ~res.is_up /\ MoreAttempts(attempts, retry_count) THEN "check_site" ELSE "log_check"
AfterResponse(res, attempts) == "log_check"

\* one iteration of the retry loop whose request raises RequestException
AttemptFails ==
    /\ pc = "check_site"
    /\ \E e \in Net(Cfg.url.host).errors :
         /\ outcomes' = Append(outcomes, [kind |-> "error", err |-> e, code |-> 0, us |-> 0,
                                          took |-> ErrorTime(e), tls |-> FALSE])
         /\ result' = OnTransportError(result, e)
    /\ pc' = IF MoreAttempts(Len(outcomes) + 1, retry_count) THEN "check_site" ELSE "log_check"
    /\ UNCHANGED <<sites, retry_count, channels, passes_left, now, i,
                   monitoring_logs, alerts, history, dispatched,
                   pass_log, scheduler, daily_report,
                   earlier_run>>

\* one iteration of the retry loop whose request receives a response: evaluate,
\* run the TLS-expiry sub-step, break
AttemptResponds ==
    /\ pc = "check_site"
    /\ \E code \in Net(Cfg.url.host).status, us \in Net(Cfg.url.host).latency :
         \E ssl_days \in check_ssl_expiry(Cfg.url) :
           /\ outcomes' = Append(outcomes,
                  [kind |-> "response", err |-> 0, code |-> code, us |-> us,
                   took |-> us + (IF CheckSsl(Cfg) THEN TlsTime(Cfg.url, ssl_days) ELSE 0),
                   tls |-> TlsInspected(Cfg)])
           /\ result' = OnSsl(OnResponse(result, Cfg, code, us), Cfg, ssl_days)
           /\ pc' = AfterResponse(OnSsl(OnResponse(result, Cfg, code, us), Cfg, ssl_days),
                                  Len(outcomes) + 1)
    /\ UNCHANGED <<sites, retry_count, channels, passes_left, now, i,
                   monitoring_logs, alerts, history, dispatched,
                   pass_log, scheduler, daily_report,
                   earlier_run>>

-----------------------------------------------------------------------------
(* simple_monitor.py and monitor_basico.py: the two other check_site *)

\* what the one request of a check met: an entry of `outcomes`
StatusExpectedPart(code, expected) == [k |-> "status_expected", a |-> code, b |-> expected]
HttpErrorPart(code) == [k |-> "http_error", a |-> code, b |-> 0]

\* simple_monitor.py lines 75-90: requests.get, the status compared with the
\* expected one; max_response_time is not read
SimpleMonitorCheckSite(site, o) ==
    LET r0 == [name |-> site.name, url |-> site.url, is_up |-> FALSE,
               status_code |-> None, response_time |-> None, error_message |-> None]
    IN  IF o.kind = "error"
        THEN [r0 EXCEPT !.error_message = <<ExcPart(o.err)>>]
        ELSE LET r1 == [r0 EXCEPT !.status_code = Some(o.code),
                                  !.response_time = Some(o.us)]
             IN  IF o.code = ExpectedStatus(site)
                 THEN [r1 EXCEPT !.is_up = TRUE]
                 ELSE [r1 EXCEPT !.error_message =
                                     <<StatusExpectedPart(o.code, ExpectedStatus(site))>>]

\* monitor_basico.py line 89: urllib.request.urlopen returns a response of status
\* 2xx and raises HTTPError for any other final status
UrlopenReturns(code) == 200 <= code /\ code <= 299

\* monitor_basico.py lines 81-107: the same comparison on what urlopen returns;
\* an HTTPError (lines 101-103) keeps the code and leaves is_up False, without
\* comparing it with the expected status
MonitorBasicoCheckSite(site, o) ==
    LET r0 == [name |-> site.name, url |-> site.url, is_up |-> FALSE,
               status_code |-> None, response_time |-> None, error_message |-> None]
    IN  IF o.kind = "error"
        THEN [r0 EXCEPT !.error_message = <<ExcPart(o.err)>>]
        ELSE IF ~UrlopenReturns(o.code)
        THEN [r0 EXCEPT !.status_code = Some(o.code),
                        !.error_message = <<HttpErrorPart(o.code)>>]
        ELSE LET r1 == [r0 EXCEPT !.status_code = Some(o.code),
                                  !.response_time = Some(o.us)]
             IN  IF o.code = ExpectedStatus(site)
                 THEN [r1 EXCEPT !.is_up = TRUE]
                 ELSE [r1 EXCEPT !.error_message =
                                     <<StatusExpectedPart(o.code, ExpectedStatus(site))>>]

-----------------------------------------------------------------------------
(* database.py: MonitoringDB *)

Row(res, ts) ==
    [site_name |-> res.name, url |-> res.url, status_code |-> res.status_code,
     response_time |-> res.response_time, ssl_days_remaining |-> res.ssl_days_remaining,
     is_up |-> res.is_up, error_message |-> res.error_message, timestamp |-> ts]

\* INSERT INTO ... VALUES: a new row with the next id (AUTOINCREMENT)
InsertDeferred(table, row) == table
InsertReplacingSiteRows(table, row) ==
    Append(SelectSeq(table, LAMBDA x : x.site_name # row.site_name), row)
Insert(table, row) == Append(table, row)

\* INSERT INTO monitoring_logs: the row gets timestamp CURRENT_TIMESTAMP
\* (check_site has returned: the record of its requests is dropped)
log_check ==
    /\ pc = "log_check"
    /\ monitoring_logs' = Insert(monitoring_logs, Row(result, now))
    /\ pc' = "check_state_change"
    /\ outcomes' = <<>>
    /\ UNCHANGED <<sites, retry_count, channels, passes_left, now, i, result,
                   alerts, history, dispatched,
                   pass_log, scheduler, daily_report,
                   earlier_run>>

SiteRows(site_name) ==
    {r \in 1..Len(monitoring_logs) : monitoring_logs[r].site_name = site_name}

\* SELECT * FROM monitoring_logs WHERE site_name = ? ORDER BY timestamp DESC LIMIT ?
\* as the set of lists of rowids the query may return: rows of equal timestamp
\* come in an order SQL leaves undefined
OrderedByTimestampDesc(h, rows) ==
    /\ \A p, q \in DOMAIN h : p # q => h[p] # h[q]
    /\ \A p, q \in DOMAIN h :
         p < q => monitoring_logs[h[p]].timestamp >= monitoring_logs[h[q]].timestamp
    /\ \A x \in rows \ Range(h) : \A p \in DOMAIN h :
         monitoring_logs[h[p]].timestamp >= monitoring_logs[x].timestamp
get_site_history(site_name, limit) ==
    LET rows == SiteRows(site_name)
        n == Min(limit, Cardinality(rows))
    IN  {h \in [1..n -> rows] : OrderedByTimestampDesc(h, rows)}

\* ... ORDER BY timestamp DESC LIMIT 1, None without a row
get_last_status(site_name) ==
    {IF Len(h) = 0 THEN None ELSE Some(h[1]) : h \in get_site_history(site_name, 1)}

-----------------------------------------------------------------------------
(* notifications.py: NotificationManager.send_alert *)

ChannelOrder == <<"email", "telegram", "whatsapp">>
Channels == Range(ChannelOrder)

\* _send_email, _send_telegram, _send_whatsapp: how one call can end. Without the
\* channel's credentials (or its library) the method returns False at its guard,
\* before any delivery; otherwise the delivery is attempted and either succeeds
\* (True) or raises, which the method's own except clause turns into False
ChannelResultsUnguarded(c) ==
    IF c \in channels THEN {"sent", "raised"} ELSE {"raised"}
ChannelResults(c) ==
    IF c \in channels THEN {"sent", "raised"} ELSE {"skipped"}

\* lines 47-57: the three methods are called one after the other, each behind
\* its own try/except; "not_called" marks a method send_alert never reached
AttemptsStoppingAtRaise ==
    {[email |-> e, telegram |-> t, whatsapp |-> w] :
        e \in ChannelResults("email"),
        t \in ChannelResults("telegram") \cup {"not_called"},
        w \in ChannelResults("whatsapp") \cup {"not_called"}}
    \cap {f \in [Channels -> {"sent", "raised", "skipped", "not_called"}] :
            \A k \in DOMAIN ChannelOrder :
                (f[ChannelOrder[k]] = "not_called")
                    <=> (\E j \in 1..(k - 1) : f[ChannelOrder[j]] = "raised")}
Attempts ==
    {[email |-> e, telegram |-> t, whatsapp |-> w] :
        e \in ChannelResults("email"),
        t \in ChannelResults("telegram"),
        w \in ChannelResults("whatsapp")}

\* site_result.get(key, default) on the dict check_site built: the dict holds
\* every key (monitor.py:17-26), so get returns the stored value, None included,
\* and the default is never used
DictGet(value, default) == [absent |-> FALSE, value |-> value, default |-> default]

\* an f-string field: the text of the value, "None" for None
Rendered(got) ==
    IF got.absent THEN got.default
    ELSE IF got.value = None THEN "None" ELSE "value"

\* lines 61-93: how _format_message renders the optional fields of the result
format_message(res) ==
    [status_code |-> Rendered(DictGet(res.status_code, "N/A")),
     response_time |-> Rendered(DictGet(res.response_time, "N/A")),
     ssl_days_remaining |-> Rendered(DictGet(res.ssl_days_remaining, "N/A")),
     error_message |-> Rendered(DictGet(res.error_message, "Nenhum"))]

\* lines 42-59: what one call of send_alert can do: how each channel's method
\* ended, and the list returned (the channels whose method returned True)
NotifierSendAlert ==
    {[tried |-> f,
      sent_via |-> SelectSeq(ChannelOrder, LAMBDA c : f[c] = "sent")] : f \in Attempts}

-----------------------------------------------------------------------------
(* main.py: MonitoringSystem *)

\* lines 100-105
TransitionSwapped(previous_status, current_status) ==
    IF previous_status /\ ~current_status THEN "recovered"
    ELSE IF ~previous_status /\ current_status THEN "down"
    ELSE "none"
Transition(previous_status, current_status) ==
    IF previous_status /\ ~current_status THEN "down"
    ELSE IF ~previous_status /\ current_status THEN "recovered"
    ELSE "none"

\* line 114-117: the body returns False; its comment names the check it leaves
\* out (a look in table alerts for an ssl_warning of the site)
RecentlyAlertedSslFromAlertLog(site_name) ==
    \E k \in DOMAIN alerts :
        alerts[k].site_name = site_name /\ alerts[k].alert_type = "ssl_warning"
recently_alerted_ssl(site_name) == FALSE

\* lines 108-111
SslWarningIgnoringStatus(res) ==
    /\ res.ssl_days_remaining # None
    /\ res.ssl_days_remaining[1] <= SslWarnUpTo
SslWarningNonNegative(res) ==
    /\ res.ssl_days_remaining # None
    /\ res.ssl_days_remaining[1] >= 0
    /\ res.ssl_days_remaining[1] <= SslWarnUpTo
    /\ res.is_up
SslWarning(res) ==
    /\ res.ssl_days_remaining # None
    /\ res.ssl_days_remaining[1] <= SslWarnUpTo
    /\ res.is_up
    /\ ~recently_alerted_ssl(res.name)

\* lines 119-134: the rows MonitoringSystem.send_alert adds to table alerts
AlertRowsFirstChannelOnly(res, alert_type, sent_via) ==
    IF sent_via = <<>> THEN <<>>
    ELSE <<[site_name |-> res.name, alert_type |-> alert_type, sent_via |-> sent_via[1]]>>
AlertRows(res, alert_type, sent_via) ==
    [c \in DOMAIN sent_via |->
        [site_name |-> res.name, alert_type |-> alert_type, sent_via |-> sent_via[c]]]

\* lines 124-131: the level of the one line send_alert writes to the log
SendAlertLogLevel(sent_via) == IF sent_via # <<>> THEN "info" ELSE "warning"

\* one call of MonitoringSystem.send_alert, as recorded in dispatched: the result
\* row it is about, the kind, and what the notifier did (n \in NotifierSendAlert)
SendAlertCall(res, alert_type, row, n) ==
    [site |-> res.name, kind |-> alert_type, row |-> row, tried |-> n.tried,
     sent_via |-> n.sent_via, logged |-> SendAlertLogLevel(n.sent_via),
     message |-> format_message(res)]

\* the second row of the list check_state_change reads (history[1] in the code)
PreviousRow(h) == h[2]

\* the value `result` is parked at between two passes (the local does not exist)
NoSite == [name |-> "", url |-> [scheme |-> "", host |-> ""],
           expected_status |-> None, max_response_time |-> None, check_ssl |-> None]
Parked == InitResult(IF sites = <<>> THEN NoSite ELSE sites[1])

\* entries of pass_log: check_site was called for a site; the line the loop body
\* logged for a site (line 80, or line 83 when an exception was caught)
ProbeCall(site_name) == [site |-> site_name, ev |-> "probe"]
LogLine(site_name, level) == [site |-> site_name, ev |-> level]

\* lines 79-83: the result line. f"{result.get('response_time', 0):.0f}" raises
\* TypeError for a result without response_time (the key exists, its value is
\* None); the except clause of line 82 catches it and logs an error instead
ResultLogLevel(res) == IF res.response_time = None THEN "error" ELSE "info"

\* lines 60-62: the for loop reaches the k-th site and calls check_site, or ends
Continue(k, log) ==
    IF k <= Len(sites)
    THEN /\ i' = k
         /\ pc' = "check_site"
         /\ result' = InitResult(sites[k])
         /\ outcomes' = <<>>
         /\ pass_log' = Append(log, ProbeCall(sites[k].name))
    ELSE /\ pc' = "idle"
         /\ i' = 1
         /\ result' = Parked
         /\ outcomes' = <<>>
         /\ pass_log' = log

\* lines 82-83: the site the loop goes on with after an exception of site k's
\* iteration was caught
AfterExceptionEscaping(k) == Len(sites) + 1
AfterException(k) == k + 1

\* lines 85-112, with the send_alert calls it makes, then the rest of the loop body
\* of check_all_sites (lines 78-83) and the move to the next site
check_state_change ==
    /\ pc = "check_state_change"
    /\ \E last_record \in get_last_status(result.name) :
       \E h \in get_site_history(result.name, TransitionHistoryLimit) :
       \E n1 \in NotifierSendAlert, n2 \in NotifierSendAlert :
         LET kind == IF last_record # None /\ Len(h) > 1
                     THEN Transition(monitoring_logs[PreviousRow(h)].is_up, result.is_up)
                     ELSE "none"
             ssl == SslWarning(result)
             row == Len(monitoring_logs)
             unused == CHOOSE n \in NotifierSendAlert : TRUE
             d1 == IF kind # "none"
                   THEN <<SendAlertCall(result, kind, row, n1)>> ELSE <<>>
             d2 == IF ssl
                   THEN <<SendAlertCall(result, "ssl_warning", row, n2)>> ELSE <<>>
             a1 == IF kind # "none" THEN AlertRows(result, kind, n1.sent_via) ELSE <<>>
             a2 == IF ssl THEN AlertRows(result, "ssl_warning", n2.sent_via) ELSE <<>>
         IN  /\ (kind = "none" => n1 = unused)
             /\ (~ssl => n2 = unused)
             /\ history' = h
             /\ dispatched' = dispatched \o d1 \o d2
             /\ alerts' = alerts \o a1 \o a2
    /\ Continue(i + 1, Append(pass_log, LogLine(result.name, ResultLogLevel(result))))
    /\ UNCHANGED <<sites, retry_count, channels, passes_left, now, monitoring_logs,
                   scheduler, daily_report,
                   earlier_run>>

\* notifications.py line 108: smtplib.SMTP(server, port) is given no timeout, and
\* nothing sets the socket default, so the socket of the e-mail channel blocks
\* without limit (None). The clients of the other two channels are libraries
\* outside this repository
ChannelTimeout(c) == None

\* send_alert was reached (an alert is due for the current result) and the SMTP
\* server accepts the connection and then sends nothing: _send_email blocks in
\* smtplib for as long as the channel's timeout allows. With a timeout the call
\* raises (one of ChannelResults); without one it never returns, and with it
\* neither do send_alert, check_state_change and the pass
SendBlocks ==
    /\ pc = "check_state_change"
    /\ "email" \in channels
    /\ ChannelTimeout("email") = None
    /\ \/ SslWarning(result)
       \/ \E last_record \in get_last_status(result.name) :
          \E h \in get_site_history(result.name, TransitionHistoryLimit) :
             /\ last_record # None
             /\ Len(h) > 1
             /\ Transition(monitoring_logs[PreviousRow(h)].is_up, result.is_up) # "none"
    /\ pc' = "send_email"
    /\ UNCHANGED <<sites, retry_count, channels, passes_left, now, i, result, outcomes,
                   monitoring_logs, alerts, history, dispatched, pass_log, scheduler,
                   daily_report,
                   earlier_run>>

\* lines 56-62: check_all_sites is invoked (run_once, or the scheduler's interval job)
\* lines 159-165: add_job is called without max_instances, so the scheduler runs
\* one instance of the job at a time and skips a firing of the trigger while
\* an instance is running
RunningInstances == IF pc = "idle" THEN 0 ELSE 1
JobMayStartAlways(running) == TRUE
JobMayStart(running) == running = 0

check_all_sites ==
    /\ JobMayStart(RunningInstances)
    /\ passes_left > 0
    /\ scheduler \in {"none", "running"}
    /\ passes_left' = passes_left - 1
    /\ Continue(1, <<>>)
    /\ UNCHANGED <<sites, retry_count, channels, now, monitoring_logs, alerts,
                   history, dispatched, scheduler, daily_report,
                   earlier_run>>

\* an unexpected exception (anything but the RequestException check_site handles:
\* a KeyError of the configuration, an sqlite3 error of log_check or of the reads
\* of check_state_change) is raised in the loop body and caught at line 82
SiteRaises ==
    /\ pc \in {"check_site", "log_check", "check_state_change"}
    /\ Continue(AfterException(i), Append(pass_log, LogLine(sites[i].name, "error")))
    /\ UNCHANGED <<sites, retry_count, channels, passes_left, now, monitoring_logs,
                   alerts, history, dispatched, scheduler, daily_report,
                   earlier_run>>

\* lines 153-180: main() without a command calls run_scheduler, which registers
\* check_all_sites as the interval job and starts the scheduler
run_scheduler ==
    /\ scheduler = "not_started"
    /\ scheduler' = "running"
    /\ UNCHANGED <<sites, retry_count, channels, passes_left, now, pc, i, result,
                   outcomes, monitoring_logs, alerts, history, dispatched, pass_log, daily_report,
                   earlier_run>>

\* lines 181-183: Ctrl-C raises KeyboardInterrupt in the main thread, blocked in
\* scheduler.start(); the handler calls scheduler.shutdown(). The pass in flight
\* runs in a thread of the scheduler's executor and is not touched
OnKeyboardInterrupt == "shutting_down"
KeyboardInterrupt ==
    /\ scheduler = "running"
    /\ scheduler' = OnKeyboardInterrupt
    /\ UNCHANGED <<sites, retry_count, channels, passes_left, now, pc, i, result,
                   outcomes, monitoring_logs, alerts, history, dispatched, pass_log, daily_report,
                   earlier_run>>

\* line 183: shutdown() is called with its default wait=True: it returns once the
\* executor has no job running
ShutdownReturnsAtOnce == TRUE
ShutdownReturns == pc = "idle"
shutdown ==
    /\ scheduler = "shutting_down"
    /\ ShutdownReturns
    /\ scheduler' = "stopped"
    /\ UNCHANGED <<sites, retry_count, channels, passes_left, now, pc, i, result,
                   outcomes, monitoring_logs, alerts, history, dispatched, pass_log, daily_report,
                   earlier_run>>

-----------------------------------------------------------------------------
(* reports.py: ReportGenerator.calculate_uptime_percentage, and the daily    *)
(* job of main.py that calls it                                              *)

\* round(n / d, 0) as Python rounds: to the nearest integer, a half to the even one
RoundDiv(n, d) ==
    LET q == n \div d
        r == n % d
    IN  IF 2 * r > d THEN q + 1
        ELSE IF 2 * r < d THEN q
        ELSE IF q % 2 = 0 THEN q ELSE q + 1

RECURSIVE SumResponseTimes(_, _)
SumResponseTimes(h, n) ==
    IF n = 0 THEN 0
    ELSE SumResponseTimes(h, n - 1) + monitoring_logs[h[n]].response_time[1]

\* line 130: limit=days * 24 * 12
ReportLimit(days) == days * 24 * 12

\* lines 132-149 over `data` (h: the rowids get_site_history returned). Numbers
\* rounded to two decimals are kept in hundredths (of a percent, of a
\* millisecond); avg_response_time None stands for a dict without that key
StatisticsOfNewest(h) ==
    IF Len(h) = 0
    THEN [uptime_percentage |-> 0, total_checks |-> 0, successful_checks |-> 0,
          avg_response_time |-> None]
    ELSE [uptime_percentage |-> IF monitoring_logs[h[1]].is_up THEN 10000 ELSE 0,
          total_checks |-> 1,
          successful_checks |-> IF monitoring_logs[h[1]].is_up THEN 1 ELSE 0,
          avg_response_time |->
              Some(IF monitoring_logs[h[1]].response_time \in {None, Some(0)} THEN 0
                   ELSE RoundDiv(monitoring_logs[h[1]].response_time[1], 10))]
Statistics(h) ==
    IF Len(h) = 0
    THEN [uptime_percentage |-> 0, total_checks |-> 0, successful_checks |-> 0,
          avg_response_time |-> None]
    ELSE LET total_checks == Len(h)
             successful_checks == Cardinality({p \in DOMAIN h : monitoring_logs[h[p]].is_up})
             timed == SelectSeq(h, LAMBDA r :
                          monitoring_logs[r].response_time \notin {None, Some(0)})
         IN  [uptime_percentage |-> RoundDiv(successful_checks * 100 * 100, total_checks),
              total_checks |-> total_checks,
              successful_checks |-> successful_checks,
              avg_response_time |->
                  Some(IF Len(timed) = 0 THEN 0
                       ELSE RoundDiv(SumResponseTimes(timed, Len(timed)),
                                     Len(timed) * 10))]

\* the results one call may return: one per list the query may return
calculate_uptime_percentage(site_name, days) ==
    {Statistics(h) : h \in get_site_history(site_name, ReportLimit(days))}

\* main.py lines 136-147 make no call of send_alert
ReportAlertsWhenDown(site_name, stats) ==
    IF stats.total_checks > stats.successful_checks
    THEN <<[site |-> site_name, kind |-> "down", row |-> 0,
            tried |-> [c \in Channels |-> "skipped"], sent_via |-> <<>>,
            logged |-> "warning", message |-> format_message(Parked)]>>
    ELSE <<>>
ReportAlerts(site_name, stats) == <<>>

\* line 146-147: the f-string reads stats['avg_response_time'], a KeyError for
\* the dict of line 133; nothing in generate_daily_report catches it
ReportLineFormatsAlways(stats) == TRUE
ReportLineFormats(stats) == stats.avg_response_time # None

\* the cron trigger fires: the scheduler calls generate_daily_report in a thread
\* of its executor, beside a pass that may be in flight
generate_daily_report ==
    /\ scheduler = "running"
    /\ daily_report.at # "running"
    /\ daily_report.runs < MaxReportRuns
    /\ daily_report' = [daily_report EXCEPT !.at = IF sites = <<>> THEN "done" ELSE "running",
                                            !.k = 1, !.runs = @ + 1]
    /\ UNCHANGED <<sites, retry_count, channels, passes_left, now, pc, i, result,
                   outcomes, monitoring_logs, alerts, history, dispatched, pass_log,
                   scheduler,
                   earlier_run>>

\* lines 140-147: one iteration of the job's loop over the sites
ReportSite ==
    /\ daily_report.at = "running"
    /\ LET site_name == sites[daily_report.k].name
       IN  \E stats \in calculate_uptime_percentage(site_name, ReportDays) :
             /\ daily_report' =
                  IF ReportLineFormats(stats)
                  THEN [daily_report EXCEPT
                          !.lines = Append(@, [site |-> site_name, stats |-> stats,
                                               run |-> daily_report.runs,
                                               stored |-> Len(monitoring_logs)]),
                          !.k = IF @ < Len(sites) THEN @ + 1 ELSE 1,
                          !.at = IF daily_report.k < Len(sites) THEN "running" ELSE "done"]
                  ELSE [daily_report EXCEPT !.at = "failed", !.k = 1]
             /\ dispatched' = dispatched \o ReportAlerts(site_name, stats)
    /\ UNCHANGED <<sites, retry_count, channels, passes_left, now, pc, i, result,
                   outcomes, monitoring_logs, alerts, history, pass_log, scheduler,
                   earlier_run>>

\* a second of wall-clock time passes. The clock is read by log_check's INSERT
\* alone, so the seconds that matter pass while the process waits: between two
\* passes and during the requests of a probe
Tick ==
    /\ pc \in {"idle", "check_site"}
    /\ now < MaxTime
    /\ now' = now + 1
    /\ UNCHANGED <<sites, retry_count, channels, passes_left, pc, i, result, outcomes,
                   monitoring_logs, alerts, history, dispatched,
                   pass_log, scheduler, daily_report,
                   earlier_run>>

-----------------------------------------------------------------------------
(* Two runs of one deployment, to compare what they dispatch for a site *)

\* what a run stored for a site, in append order and without the time of
\* storage: the outcomes of the site's probes
OutcomesOf(site_name) ==
    LET own == SelectSeq(monitoring_logs, LAMBDA x : x.site_name = site_name)
    IN  [k \in DOMAIN own |->
            [is_up |-> own[k].is_up, status_code |-> own[k].status_code,
             response_time |-> own[k].response_time,
             ssl_days_remaining |-> own[k].ssl_days_remaining,
             error_message |-> own[k].error_message]]

\* the alerts a run dispatched for a site, in order: the kind, and for which of
\* the site's results (the n-th)
AlertsOf(site_name) ==
    LET own == SelectSeq(dispatched, LAMBDA d : d.site = site_name)
    IN  [k \in DOMAIN own |->
            [kind |-> own[k].kind,
             nth |-> Cardinality({r \in SiteRows(site_name) : r <= own[k].row})]]

NoRun == [done |-> FALSE, outcomes |-> <<>>, alerts |-> <<>>]

\* the site under observation is the first of the list; the others follow it
Observed == sites[1].name

\* a request of another site's probe lasts across the turn of the wall-clock
\* second (the time a request takes is part of that site's outcome)
OtherProbeCrossesSecond ==
    /\ pc = "check_site"
    /\ sites[i].name # Observed
    /\ now < MaxTime
    /\ now' = now + 1
    /\ UNCHANGED <<sites, retry_count, channels, passes_left, pc, i, result, outcomes,
                   monitoring_logs, alerts, history, dispatched,
                   pass_log, scheduler, daily_report, earlier_run>>

\* main(): the deployment is run a second time, MonitoringSystem() on a database
\* init_db creates anew, at the same phase of the clock; what the first run
\* stored and dispatched for the observed site is kept for comparison
StartOnFreshDatabase ==
    /\ pc = "idle"
    /\ passes_left = 0
    /\ ~earlier_run.done
    /\ earlier_run' = [done |-> TRUE, outcomes |-> OutcomesOf(Observed),
                       alerts |-> AlertsOf(Observed)]
    /\ passes_left' = MaxTwinPasses
    /\ now' = 0
    /\ monitoring_logs' = <<>>
    /\ alerts' = <<>>
    /\ history' = <<>>
    /\ dispatched' = <<>>
    /\ pass_log' = <<>>
    /\ UNCHANGED <<sites, retry_count, channels, pc, i, result, outcomes, scheduler,
                   daily_report>>

-----------------------------------------------------------------------------
(* Specifications *)

\* the process has started and called nothing yet
InitProcess ==
    /\ now = 0
    /\ pc = "idle"
    /\ i = 1
    /\ result = Parked
    /\ outcomes = <<>>
    /\ alerts = <<>>
    /\ history = <<>>
    /\ dispatched = <<>>
    /\ pass_log = <<>>
    /\ daily_report = [at |-> "idle", k |-> 1, runs |-> 0, lines |-> <<>>]
    /\ earlier_run = NoRun

\* ... on a database init_db has just created
InitCommon ==
    /\ InitProcess
    /\ monitoring_logs = <<>>

\* two sites, no channel configured, two attempts per probe
Init ==
    /\ sites = <<SiteA, SiteB>>
    /\ retry_count = 2
    /\ channels = {}
    /\ passes_left = MaxPasses
    /\ scheduler = "running"
    /\ InitCommon

\* one site with check_ssl, no channel configured
InitSsl ==
    /\ sites = <<SiteS>>
    /\ retry_count = 2
    /\ channels = {}
    /\ passes_left = MaxSslPasses
    /\ scheduler = "running"
    /\ InitCommon

\* one site, one pass: the probe over every configuration, retry count and outcome
InitProbe ==
    /\ sites \in {<<c>> : c \in ProbeConfigs}
    /\ retry_count \in 1..MaxRetry
    /\ channels = {}
    /\ passes_left = 1
    /\ scheduler = "none"
    /\ InitCommon

\* what an earlier run of `main.py check` left in monitoring_logs for site N:
\* nothing, an up result or a down result
StoredByEarlierRun ==
    {<<>>,
     <<Row(OnResponse(InitResult(SiteN), SiteN, 200, 150000), 0)>>,
     <<Row(OnResponse(InitResult(SiteN), SiteN, 500, 150000), 0)>>}

\* `main.py check` (run_once: one pass) for one site with check_ssl, under every
\* set of configured channels, on the database an earlier run left
InitNotify ==
    /\ sites = <<SiteN>>
    /\ retry_count = 1
    /\ channels \in SUBSET Channels
    /\ passes_left = 1
    /\ scheduler = "none"
    /\ InitProcess
    /\ monitoring_logs \in StoredByEarlierRun

\* `main.py check` (one pass, no scheduler) or `main.py` (the scheduler, not yet
\* started), with sites.json missing or unreadable (load_sites_config returns [])
\* or listing sites C and B
InitOps ==
    /\ sites \in {<<>>, <<SiteC, SiteB>>}
    /\ retry_count = 1
    /\ channels = {}
    /\ \/ scheduler = "none" /\ passes_left = 1
       \/ scheduler = "not_started" /\ passes_left = MaxOpsPasses
    /\ InitCommon

Next ==
    \/ check_all_sites
    \/ AttemptFails
    \/ AttemptResponds
    \/ log_check
    \/ check_state_change
    \/ Tick

Spec == Init /\ [][Next]_vars
SpecSsl == InitSsl /\ [][Next]_vars
SpecProbe == InitProbe /\ [][Next]_vars
SpecNotify == InitNotify /\ [][Next]_vars

\* the passes over sites C and B with the e-mail channel configured
InitPipeline ==
    /\ sites = <<SiteC, SiteB>>
    /\ retry_count = 1
    /\ channels = {"email"}
    /\ passes_left = MaxOpsPasses
    /\ scheduler = "running"
    /\ InitCommon
SpecPipeline == InitPipeline /\ [][Next]_vars

\* what earlier runs left in table alerts for site N: nothing, or an ssl_warning
\* delivered by e-mail
LoggedByEarlierRun ==
    {<<>>, <<[site_name |-> "N", alert_type |-> "ssl_warning", sent_via |-> "email"]>>}

\* the passes over one site with check_ssl whose certificate has 10 days left,
\* with the e-mail channel configured, on the alert log an earlier run left
InitSslLogged ==
    /\ sites = <<SiteN>>
    /\ retry_count = 1
    /\ channels = {"email"}
    /\ passes_left = MaxSslPasses
    /\ scheduler = "running"
    /\ now = 0
    /\ pc = "idle"
    /\ i = 1
    /\ result = Parked
    /\ outcomes = <<>>
    /\ alerts \in LoggedByEarlierRun
    /\ history = <<>>
    /\ dispatched = <<>>
    /\ pass_log = <<>>
    /\ daily_report = [at |-> "idle", k |-> 1, runs |-> 0, lines |-> <<>>]
    /\ earlier_run = NoRun
    /\ monitoring_logs = <<>>
SpecSslLogged == InitSslLogged /\ [][Next]_vars

\* the passes over sites C and B with the e-mail channel configured, whose SMTP
\* server may stay silent. The thread that runs the pass keeps running: a step of
\* the pass that can be taken is taken
NextSend ==
    \/ Next
    \/ SendBlocks
PassStep ==
    \/ AttemptFails
    \/ AttemptResponds
    \/ log_check
    \/ check_state_change
    \/ SendBlocks
SpecSend == InitPipeline /\ [][NextSend]_vars /\ WF_vars(PassStep)

\* two runs of `main.py check` repeated back to back over sites C and B, each on a
\* fresh database. Site C answers at once; the clock moves only while a request
\* of site B is under way, so the two runs differ in nothing but the outcomes of
\* B whenever the outcomes of C are the same
InitTwin ==
    /\ sites = <<SiteC, SiteB>>
    /\ retry_count = 1
    /\ channels = {}
    /\ passes_left = MaxTwinPasses
    /\ scheduler = "none"
    /\ InitCommon
NextTwin ==
    \/ check_all_sites
    \/ AttemptFails
    \/ AttemptResponds
    \/ log_check
    \/ check_state_change
    \/ OtherProbeCrossesSecond
    \/ StartOnFreshDatabase
SpecTwin == InitTwin /\ [][NextTwin]_vars

\* the same steps, with the exceptions the loop body can meet and the scheduler's
\* start, interrupt and shutdown
NextOps ==
    \/ Next
    \/ SiteRaises
    \/ run_scheduler
    \/ KeyboardInterrupt
    \/ shutdown
SpecOps == InitOps /\ [][NextOps]_vars

\* `main.py` with the scheduler started: the passes over sites C and B, and the
\* daily report job beside them
\* what earlier passes left in monitoring_logs for sites C and B: nothing, or an
\* up result of each
StoredByEarlierPass ==
    {<<>>,
     <<Row(OnResponse(InitResult(SiteC), SiteC, 200, 150000), 0),
       Row(OnResponse(InitResult(SiteB), SiteB, 200, 150000), 0)>>}

InitReport ==
    /\ sites = <<SiteC, SiteB>>
    /\ retry_count = 1
    /\ channels = {}
    /\ passes_left = MaxReportPasses
    /\ scheduler = "running"
    /\ InitProcess
    /\ monitoring_logs \in StoredByEarlierPass
NextReport ==
    \/ Next
    \/ generate_daily_report
    \/ ReportSite
SpecReport == InitReport /\ [][NextReport]_vars

-----------------------------------------------------------------------------
(* Vocabulary of the properties *)

Rows == 1..Len(monitoring_logs)
IsUp(r) == monitoring_logs[r].is_up

\* check_state_change has run for row r (the row of the call's current result)
Detected(r) == r \in Rows /\ (r < Len(monitoring_logs) \/ pc # "check_state_change")

\* the rows of r's site stored before r, and the one immediately preceding r
Earlier(r) == {q \in Rows : q < r /\ monitoring_logs[q].site_name = monitoring_logs[r].site_name}
HasPreceding(r) == Earlier(r) # {}
Preceding(r) == CHOOSE q \in Earlier(r) : \A x \in Earlier(r) : x <= q

\* the send_alert calls made for row r
Calls(r, kinds) == {j \in DOMAIN dispatched : dispatched[j].row = r /\ dispatched[j].kind \in kinds}
Dispatched(r, kind) == Calls(r, {kind}) # {}
NoTransitionAlert(r) == Calls(r, {"down", "recovered"}) = {}

\* check_state_change has returned and `history` is the list it read for the last row
LastCallDone == pc # "check_state_change" /\ Len(monitoring_logs) > 0
LastRow == Len(monitoring_logs)

\* check_site has returned `result`; `outcomes` is what its requests met
Returned == pc = "log_check"
Responded == outcomes # <<>> /\ Last(outcomes).kind = "response"
AllFailed == outcomes # <<>> /\ \A j \in DOMAIN outcomes : outcomes[j].kind = "error"
WithinLimits ==
    /\ Last(outcomes).code = ExpectedStatus(Cfg)
    /\ Last(outcomes).us <= MaxResponseTime(Cfg) * MicrosPerMilli

-----------------------------------------------------------------------------
(* Properties *)

\* C1: for every stored result whose detection has run, a 'down' alert was
\* dispatched for it if and only if the site has an earlier stored result, the one
\* immediately preceding it is up and it is itself down.
C1_DownIffPrecedingUp ==
    \A r \in Rows : Detected(r) =>
        (Dispatched(r, "down") <=> (HasPreceding(r) /\ IsUp(Preceding(r)) /\ ~IsUp(r)))

\* C2: for every stored result whose detection has run, a 'recovered' alert was
\* dispatched for it if and only if the site has an earlier stored result, the one
\* immediately preceding it is down and it is itself up.
C2_RecoveredIffPrecedingDown ==
    \A r \in Rows : Detected(r) =>
        (Dispatched(r, "recovered") <=> (HasPreceding(r) /\ ~IsUp(Preceding(r)) /\ IsUp(r)))

\* C3: a site's first stored result gets no transition alert, and neither does a
\* result whose is_up equals that of the result stored immediately before it.
C3_NoAlertWithoutChange ==
    \A r \in Rows : Detected(r) =>
        /\ ~HasPreceding(r) => NoTransitionAlert(r)
        /\ (HasPreceding(r) /\ IsUp(Preceding(r)) = IsUp(r)) => NoTransitionAlert(r)

\* the two entries the detector read were stored in different seconds, so that
\* "newest first" names one order only
DistinctSeconds(h) ==
    monitoring_logs[h[1]].timestamp > monitoring_logs[h[2]].timestamp

\* C4 as stated: with the two-entry history the detector read written newest first
\* (history[0], history[1]): [up, up] gives no transition alert, [down, up] gives
\* 'recovered', [up, down] gives 'down', a single entry gives none (taken on the
\* histories whose two entries were stored in different seconds).
C4_TableNewestFirst ==
    LastCallDone =>
        /\ Len(history) <= 1 => NoTransitionAlert(LastRow)
        /\ (Len(history) = 2 /\ DistinctSeconds(history)) =>
            /\ (IsUp(history[1]) /\ IsUp(history[2])) => NoTransitionAlert(LastRow)
            /\ (~IsUp(history[1]) /\ IsUp(history[2])) => Dispatched(LastRow, "recovered")
            /\ (IsUp(history[1]) /\ ~IsUp(history[2])) => Dispatched(LastRow, "down")

\* C4 amended: the table holds with the pair written oldest first, as (is_up of the
\* second entry of the history the detector read, is_up of the current result):
\* (up, up) gives no transition alert, (down, up) gives 'recovered' and nothing
\* else, (up, down) gives 'down' and nothing else, a single entry gives none.
C4_TableOldestFirst ==
    LastCallDone =>
        /\ Len(history) <= 1 => NoTransitionAlert(LastRow)
        /\ Len(history) = 2 =>
            /\ (IsUp(history[2]) /\ IsUp(LastRow)) => NoTransitionAlert(LastRow)
            /\ (~IsUp(history[2]) /\ IsUp(LastRow)) =>
                  (Dispatched(LastRow, "recovered") /\ ~Dispatched(LastRow, "down"))
            /\ (IsUp(history[2]) /\ ~IsUp(LastRow)) =>
                  (Dispatched(LastRow, "down") /\ ~Dispatched(LastRow, "recovered"))

\* C4 witness: the detector read a two-entry history whose second entry is down
\* while the current result is up, and dispatched 'recovered'.
C4_Witness ==
    /\ LastCallDone
    /\ Len(history) = 2
    /\ ~IsUp(history[2])
    /\ IsUp(LastRow)
    /\ Dispatched(LastRow, "recovered")

SslDays(r) == monitoring_logs[r].ssl_days_remaining

\* C5 as stated: an 'ssl_warning' alert was dispatched for a result if and only if
\* it is up and its ssl_days_remaining is present and between 0 and 30.
C5_SslWarningIffZeroToThirty ==
    \A r \in Rows : Detected(r) =>
        (Dispatched(r, "ssl_warning") <=>
            (IsUp(r) /\ SslDays(r) # None /\ 0 <= SslDays(r)[1] /\ SslDays(r)[1] <= 30))

\* C5 amended: an 'ssl_warning' alert was dispatched for a result if and only if it
\* is up and its ssl_days_remaining is present and at most 30 (negative included);
\* none is dispatched for a result that is down.
C5_SslWarningIffAtMostThirty ==
    \A r \in Rows : Detected(r) =>
        (Dispatched(r, "ssl_warning") <=>
            (IsUp(r) /\ SslDays(r) # None /\ SslDays(r)[1] <= 30))

\* C5 witness: an 'ssl_warning' was dispatched for an up result whose
\* ssl_days_remaining is negative.
C5_Witness ==
    \E r \in Rows :
        Detected(r) /\ IsUp(r) /\ SslDays(r) # None /\ SslDays(r)[1] < 0
        /\ Dispatched(r, "ssl_warning")

\* C6: for one result (one site in one pass) at most one of 'down'/'recovered' and
\* at most one 'ssl_warning' is dispatched, and never 'down' with 'ssl_warning'.
C6_AtMostOnePerKind ==
    \A r \in Rows :
        /\ Cardinality(Calls(r, {"down", "recovered"})) <= 1
        /\ Cardinality(Calls(r, {"ssl_warning"})) <= 1
        /\ ~(Dispatched(r, "down") /\ Dispatched(r, "ssl_warning"))

\* C6 witness: 'recovered' and 'ssl_warning' were both dispatched for one result.
C6_Witness ==
    \E r \in Rows : Dispatched(r, "recovered") /\ Dispatched(r, "ssl_warning")

\* C7: a returned result is up if and only if the last request received a response
\* with the expected status within the maximum response time; a response with the
\* expected status over the maximum gives is_up = false and an error message whose
\* status part carries the measured time as the code formats it.
C7_UpIffStatusAndLatency ==
    Returned =>
        /\ result.is_up <=> (Responded /\ WithinLimits)
        /\ (/\ Responded
            /\ Last(outcomes).code = ExpectedStatus(Cfg)
            /\ Last(outcomes).us > MaxResponseTime(Cfg) * MicrosPerMilli) =>
               /\ ~result.is_up
               /\ \E p \in DOMAIN result.error_message :
                     /\ result.error_message[p].k = "status"
                     /\ result.error_message[p].b = Fmt0f(Last(outcomes).us)

\* C7 witness: check_site returned for a response with the expected status whose
\* latency is over the maximum.
C7_Witness ==
    /\ Returned
    /\ Responded
    /\ Last(outcomes).code = ExpectedStatus(Cfg)
    /\ Last(outcomes).us > MaxResponseTime(Cfg) * MicrosPerMilli
    /\ ~result.is_up

\* the TLS-expiry sub-step annotated the returned result
SslAnnotated ==
    /\ result.ssl_days_remaining # None
    /\ result.ssl_days_remaining[1] < SslAnnotateBelow

\* C8: when the responding request met the expected status within the maximum
\* response time, the returned result is up with error_message None, whichever
\* attempt responded (taken on the results the TLS sub-step did not annotate).
C8_UpHasNoErrorMessage ==
    (Returned /\ Responded /\ WithinLimits /\ ~SslAnnotated) =>
        (result.is_up /\ result.error_message = None)

\* C9: when k attempts fail and attempt k+1 responds, k+1 requests are issued and
\* the returned result is the one the responding attempt alone produces.
C9_ReflectsRespondingAttemptOnly ==
    (Returned /\ Responded) =>
        /\ \A j \in 1..(Len(outcomes) - 1) : outcomes[j].kind = "error"
        /\ Len(outcomes) <= retry_count
        /\ result = OnSsl(OnResponse(InitResult(Cfg), Cfg, Last(outcomes).code,
                                     Last(outcomes).us),
                          Cfg, result.ssl_days_remaining)

\* C10: check_site never issues more than retry_count requests and returns once
\* they are used up; when every attempt failed, exactly retry_count requests were
\* issued and the returned result is down, with no status code, no response time
\* and the error message of the last failure.
C10_AllAttemptsFail ==
    /\ Len(outcomes) <= retry_count
    /\ pc = "check_site" => Len(outcomes) < retry_count
    /\ (Returned /\ AllFailed) =>
        /\ Len(outcomes) = retry_count
        /\ ~result.is_up
        /\ result.status_code = None
        /\ result.response_time = None
        /\ result.error_message = <<ExcPart(Last(outcomes).err)>>

\* C10 witness: check_site returned after several failures, the last one with
\* another error than the first.
C10_Witness ==
    /\ Returned
    /\ AllFailed
    /\ Len(outcomes) >= 2
    /\ outcomes[1].err # Last(outcomes).err


\* C11: the TLS-expiry sub-step leaves is_up as the evaluation of the response set
\* it: the returned is_up is the one the status and latency alone give, whether
\* check_ssl is off, the certificate probe failed or it reported any number of days.
C11_SslKeepsIsUp ==
    (Returned /\ Responded) =>
        result.is_up = OnResponse(InitResult(Cfg), Cfg, Last(outcomes).code,
                                  Last(outcomes).us).is_up

\* C11 witness: check_site returned an up result that the TLS sub-step annotated
\* (fewer than 30 days left).
C11_Witness ==
    /\ Returned
    /\ Responded
    /\ CheckSsl(Cfg)
    /\ SslAnnotated
    /\ result.is_up


\* the calls of MonitoringSystem.send_alert made so far
Sent == {dispatched[k] : k \in DOMAIN dispatched}

\* C12: every call of the notifier's send_alert calls the method of each of the
\* three channels, attempts the delivery on each configured one whatever
\* happened to the others (a raising channel is not sent and stops nothing), and
\* returns exactly the channels whose delivery succeeded, in channel order.
C12_EveryChannelAttempted ==
    \A d \in Sent :
        /\ \A c \in Channels : d.tried[c] # "not_called"
        /\ \A c \in channels : d.tried[c] \in {"sent", "raised"}
        /\ d.sent_via = SelectSeq(ChannelOrder, LAMBDA c : d.tried[c] = "sent")
        /\ \A c \in Channels : d.tried[c] = "raised" => c \notin Range(d.sent_via)

\* C12 witness: a call in which the first channel raised and both later channels
\* were still attempted and delivered.
C12_Witness ==
    \E d \in Sent :
        /\ d.tried["email"] = "raised"
        /\ d.sent_via = <<"telegram", "whatsapp">>

\* C13: a channel without credentials attempts no delivery, raises nothing and is
\* not in the returned list; with no channel configured the list is empty and no
\* delivery is attempted at all.
C13_UnconfiguredChannelSilent ==
    \A d \in Sent :
        /\ \A c \in Channels \ channels :
              d.tried[c] = "skipped" /\ c \notin Range(d.sent_via)
        /\ channels = {} =>
              d.sent_via = <<>> /\ \A c \in Channels : d.tried[c] = "skipped"

\* C13 witness: an alert was dispatched while no channel was configured.
C13_Witness == channels = {} /\ dispatched # <<>>


\* the rows the alert log must hold for the first k calls of send_alert: for
\* each call in turn, one row per channel of its success list
RECURSIVE RowsOwed(_)
RowsOwed(k) ==
    IF k = 0 THEN <<>>
    ELSE LET d == dispatched[k]
         IN  RowsOwed(k - 1) \o
             [c \in DOMAIN d.sent_via |->
                 [site_name |-> d.site, alert_type |-> d.kind, sent_via |-> d.sent_via[c]]]

Between(p, q) ==
    {r \in Rows : p <= r /\ r <= q /\ monitoring_logs[r].site_name = monitoring_logs[p].site_name}

\* C15: a 'down' alert is dispatched once per outage: after a 'down' alert that no
\* channel delivered, no later pass dispatches 'down' for the same site while every
\* result of the site stored since is still down.
C15_DownOncePerOutage ==
    \A j, k \in DOMAIN dispatched :
        (/\ j < k
         /\ dispatched[j].kind = "down"
         /\ dispatched[j].sent_via = <<>>
         /\ dispatched[k].kind = "down"
         /\ dispatched[k].site = dispatched[j].site)
        => \E r \in Between(dispatched[j].row, dispatched[k].row) : IsUp(r)


\* the list of the (at most `limit`) most recently appended rows of a site, the
\* newest first
NewestFirst(site_name, limit) ==
    LET rows == SiteRows(site_name)
        n == Min(limit, Cardinality(rows))
    IN  CHOOSE h \in [1..n -> rows] :
            /\ \A p, q \in DOMAIN h : p < q => h[p] > h[q]
            /\ \A x \in rows \ Range(h) : \A p \in DOMAIN h : h[p] > x

\* C18: the two-entry history check_state_change read right after log_check stored
\* the current result is, in append order, the current result first and the result
\* appended just before it second, whatever the timestamps of the two rows.
C18_HistoryNewestFirstInAppendOrder ==
    LastCallDone =>
        history = NewestFirst(monitoring_logs[LastRow].site_name, TransitionHistoryLimit)


\* the passes started so far (in Spec), and row x holding the fields of result res
PassesRun == MaxPasses - passes_left
Holds(x, res) ==
    /\ x.site_name = res.name
    /\ x.url = res.url
    /\ x.status_code = res.status_code
    /\ x.response_time = res.response_time
    /\ x.ssl_days_remaining = res.ssl_days_remaining
    /\ x.is_up = res.is_up
    /\ x.error_message = res.error_message

\* C17: the history store is append-only. Every step leaves the stored rows as they
\* are and adds at most one row, which holds the fields of the result check_site
\* just returned (a transport failure included); and after every pass the store
\* holds exactly one row per pass for each configured site.
C17_HistoryAppendOnly ==
    /\ [][\/ monitoring_logs' = monitoring_logs
          \/ /\ Len(monitoring_logs') = Len(monitoring_logs) + 1
             /\ SubSeq(monitoring_logs', 1, Len(monitoring_logs)) = monitoring_logs
             /\ Holds(Last(monitoring_logs'), result)]_vars
    /\ [](pc = "idle" =>
            \A k \in DOMAIN sites : Cardinality(SiteRows(sites[k].name)) = PassesRun)

\* C17 witness: two passes are over and the store holds two rows of site A, the
\* first of them a transport failure.
C17_Witness ==
    /\ pc = "idle"
    /\ PassesRun = 2
    /\ Cardinality(SiteRows("A")) = 2
    /\ monitoring_logs[1].site_name = "A"
    /\ monitoring_logs[1].status_code = None


\* the sites check_site was called for in the current pass, and the sites whose
\* iteration has ended (with its result line or with the caught exception's line)
Probes == SelectSeq(pass_log, LAMBDA e : e.ev = "probe")
Lines == SelectSeq(pass_log, LAMBDA e : e.ev # "probe")
ConfiguredNames(n) == [k \in 1..n |-> sites[k].name]
NamesOf(log) == [k \in DOMAIN log |-> log[k].site]

C19_NoSitesIsFatal ==
    sites = <<>> =>
        /\ scheduler \in {"none", "not_started"}
        /\ passes_left = IF scheduler = "none" THEN 1 ELSE MaxOpsPasses

\* the last pass started has run to its end: every site's iteration has ended
PassComplete ==
    pc = "idle" /\ (pass_log # <<>> => NamesOf(Lines) = ConfiguredNames(Len(sites)))

ReportLines == {daily_report.lines[k] : k \in DOMAIN daily_report.lines}

C28_ReportHasNoSideEffects ==
    [][daily_report' # daily_report =>
          UNCHANGED <<dispatched, alerts, monitoring_logs, pc, i, result, history>>]_vars

\* C28 witness: the job has reported site C, whose statistics count a failed
\* check, while a pass is in flight at site B.
C28_Witness ==
    /\ pc = "log_check"
    /\ i = 2
    /\ \E a \in ReportLines :
          /\ a.site = "C"
          /\ a.run = daily_report.runs
          /\ a.stats.total_checks > a.stats.successful_checks
          /\ a.stored = Len(monitoring_logs)

\* C29: one run of the daily report job reports every configured site, a site
\* without any stored result included: when a run has ended, it has logged one
\* line for each site.
C29_ReportCoversEverySite ==
    (daily_report.runs > 0 /\ daily_report.at # "running") =>
        \A k \in DOMAIN sites :
            \E a \in ReportLines : a.site = sites[k].name /\ a.run = daily_report.runs


\* how long the check_site call in progress has blocked so far, in microseconds
RECURSIVE BlockedIn(_)
BlockedIn(n) == IF n = 0 THEN 0 ELSE BlockedIn(n - 1) + outcomes[n].took
Blocked == BlockedIn(Len(outcomes))

\* C22: check_site never blocks longer than timeout * retry_count in all, the
\* requests of every attempt and the certificate connection counted.
C22_BlocksAtMostTimeoutPerAttempt ==
    Returned => Blocked <= retry_count * Timeout * 1000 * MicrosPerMilli

\* C23: a received response ends the retry loop. A response is always the last
\* request of its check, whatever its status and latency; check_site is still in
\* its loop only while every request so far raised a transport error.
C23_ResponseEndsRetryLoop ==
    /\ \A j \in DOMAIN outcomes : outcomes[j].kind = "response" => j = Len(outcomes)
    /\ (pc = "check_site" /\ outcomes # <<>>) => AllFailed
    /\ Responded => Returned

\* C23 witness: after a transport error the second request received a response
\* with the wrong status, and check_site returned with an attempt left.
C23_Witness ==
    /\ Returned
    /\ Len(outcomes) = 2
    /\ retry_count = 3
    /\ outcomes[1].kind = "error"
    /\ outcomes[2].kind = "response"
    /\ outcomes[2].code # ExpectedStatus(Cfg)
    /\ ~result.is_up

\* C24: for a site with check_ssl and an https url, every check inspects the
\* certificate exactly once, whatever the requests met.
C24_TlsInspectedEveryCheck ==
    (Returned /\ TlsInspected(Cfg)) =>
        Cardinality({j \in DOMAIN outcomes : outcomes[j].tls}) = 1

\* the error message of the result just before the TLS sub-step of the responding
\* attempt ran
MessageBeforeTls ==
    LET before == IF Len(outcomes) = 1 THEN InitResult(Cfg)
                  ELSE OnTransportError(InitResult(Cfg), outcomes[Len(outcomes) - 1].err)
    IN  OnResponse(before, Cfg, Last(outcomes).code, Last(outcomes).us).error_message

\* C25: the SSL-expiry annotation is appended: when the TLS sub-step annotated the
\* result, every part of the error message present before the sub-step is still
\* in the returned error message, followed by the annotation.
C25_SslAnnotationAppended ==
    (Returned /\ Responded /\ SslAnnotated) =>
        result.error_message =
            MessageBeforeTls \o <<SslPart(result.ssl_days_remaining[1])>>


\* C26: the steps of a site's pipeline come in the order probe, history append,
\* detection, dispatch, alert-log append, and a site's pipeline is over before the
\* next probe starts. A row is appended only when check_site has returned, and it
\* holds the returned result; detection runs only after the append, over a store
\* whose last row is the current result; alerts are dispatched, and their rows
\* appended after them, only in the detection step; the probe of a site starts
\* only from rest or from the end of the previous site's detection step.
C26_PipelineOrder ==
    /\ [][pc' = "log_check" => pc = "check_site"]_vars
    /\ [][monitoring_logs' # monitoring_logs =>
             /\ pc = "log_check" /\ pc' = "check_state_change"
             /\ monitoring_logs' = Append(monitoring_logs, Row(result, now))]_vars
    /\ [][pc' = "check_state_change" =>
             /\ pc = "log_check"
             /\ Len(monitoring_logs') = Len(monitoring_logs) + 1
             /\ Holds(Last(monitoring_logs'), result')]_vars
    /\ [][(dispatched' # dispatched \/ alerts' # alerts) =>
             /\ pc = "check_state_change" /\ pc' # "check_state_change"
             /\ Holds(Last(monitoring_logs), result)
             /\ \A k \in (Len(dispatched) + 1)..Len(dispatched') :
                    dispatched'[k].row = Len(monitoring_logs)
             /\ alerts' = RowsOwed(Len(dispatched))']_vars
    /\ [][(pc' = "check_site" /\ (pc # "check_site" \/ i' # i)) =>
             pc \in {"idle", "check_state_change"}]_vars

\* C26 witness: the pipeline of site C has ended with a 'down' alert delivered and
\* logged, and the probe of site B is about to start.
C26_Witness ==
    /\ pc = "check_site"
    /\ i = 2
    /\ outcomes = <<>>
    /\ dispatched # <<>>
    /\ Last(dispatched).row = Len(monitoring_logs)
    /\ Last(dispatched).kind = "down"
    /\ alerts # <<>>
    /\ Last(alerts).site_name = "C"


C30_AbsentFieldsRenderedNA ==
    \A d \in Sent :
        LET r == monitoring_logs[d.row]
        IN  /\ r.status_code = None => d.message.status_code = "N/A"
            /\ r.response_time = None => d.message.response_time = "N/A"
            /\ r.ssl_days_remaining = None => d.message.ssl_days_remaining = "N/A"
            /\ r.error_message = None => d.message.error_message = "N/A"


\* the stored results that are up with a certificate of at most 30 days
SslDue == {r \in Rows : IsUp(r) /\ SslDays(r) # None /\ SslDays(r)[1] <= SslWarnUpTo}

\* C31: the SSL de-duplication never suppresses. Every detected result that is up
\* with ssl_days_remaining <= 30 got exactly one 'ssl_warning' alert, so the
\* number of ssl_warning alerts dispatched is the number of such results,
\* whatever the alert log already held.
C31_SslWarningEveryPass ==
    /\ \A r \in SslDue : Detected(r) => Cardinality(Calls(r, {"ssl_warning"})) = 1
    /\ Cardinality({k \in DOMAIN dispatched : dispatched[k].kind = "ssl_warning"})
          = Cardinality({r \in SslDue : Detected(r)})

\* C31 witness: two consecutive passes found the site up with 10 days left; the
\* first ssl_warning was delivered and logged, and the second pass dispatched
\* another one.
C31_Witness ==
    /\ pc = "idle"
    /\ SslDue = {1, 2}
    /\ Dispatched(1, "ssl_warning") /\ Dispatched(2, "ssl_warning")
    /\ \E k \in Calls(1, {"ssl_warning"}) : dispatched[k].sent_via = <<"email">>
    /\ \E a \in DOMAIN alerts : alerts[a].alert_type = "ssl_warning"


\* C32: the dispatch of a site's alerts always returns. Whenever a pass has reached
\* the detection and dispatch step for a site, the step ends and the pass goes on
\* (to the next site, or to its end), even when a channel's server never answers.
C32_SendAlertAlwaysReturns ==
    (pc = "check_state_change") ~> (pc \in {"check_site", "idle"})


\* the calls of send_alert that report a transition of a site
TransitionCalls(site_name) ==
    {k \in DOMAIN dispatched :
        dispatched[k].site = site_name /\ dispatched[k].kind \in {"down", "recovered"}}

\* C33: the 'down' and 'recovered' alerts of one site strictly alternate: two
\* transition alerts of a site with no transition alert of that site between them
\* are of different kinds, and the first transition alert of a site whose first
\* stored result is up is a 'down' alert.
C33_TransitionAlertsAlternate ==
    \A s \in DOMAIN sites :
        LET calls == TransitionCalls(sites[s].name)
            rows == SiteRows(sites[s].name)
        IN  /\ \A j, k \in calls :
                  (j < k /\ ~\E x \in calls : j < x /\ x < k)
                      => dispatched[j].kind # dispatched[k].kind
            /\ \A j \in calls :
                  ((\A x \in calls : j <= x) /\ (\E r \in rows : (\A q \in rows : r <= q) /\ IsUp(r)))
                      => dispatched[j].kind = "down"


\* the stored error message of row r carries the SSL-expiry annotation
Annotated(r) ==
    \E p \in DOMAIN monitoring_logs[r].error_message :
        monitoring_logs[r].error_message[p].k = "ssl"

\* C34 as stated: whenever an 'ssl_warning' alert is dispatched for a result, that
\* result's error message carries the SSL-expiry annotation.
C34_SslWarningCarriesAnnotation ==
    \A d \in Sent : d.kind = "ssl_warning" => Annotated(d.row)

\* C34 amended: the result of an 'ssl_warning' alert carries the annotation (as its
\* whole error message, with the number of days) when ssl_days_remaining is
\* below 30; at exactly 30 the alert is dispatched for a result whose error
\* message has no annotation.
C34_AnnotationBelowThirtyOnly ==
    \A d \in Sent : d.kind = "ssl_warning" =>
        IF SslDays(d.row)[1] < SslAnnotateBelow
        THEN monitoring_logs[d.row].error_message = <<SslPart(SslDays(d.row)[1])>>
        ELSE SslDays(d.row)[1] = SslWarnUpTo /\ ~Annotated(d.row)

\* C34 witness: an 'ssl_warning' was dispatched for a result with exactly 30 days
\* left, and another for a result with fewer, which carries the annotation.
C34_Witness ==
    \E d, e \in Sent :
        /\ d.kind = "ssl_warning" /\ SslDays(d.row) = Some(30) /\ ~Annotated(d.row)
        /\ e.kind = "ssl_warning" /\ SslDays(e.row)[1] < SslAnnotateBelow /\ Annotated(e.row)


\* C35: sites are independent. Two runs of the deployment in which the observed
\* site met the same sequence of probe outcomes, and which differ only in the
\* outcomes of the other site, dispatched the same alerts for the observed site.
C35_SitesIndependent ==
    (/\ earlier_run.done
     /\ pc = "idle"
     /\ passes_left = 0
     /\ OutcomesOf(Observed) = earlier_run.outcomes)
    => AlertsOf(Observed) = earlier_run.alerts


\* C36: the three probe implementations classify alike. When SiteMonitor.check_site,
\* run with retry_count = 1, has returned, SimpleMonitor.check_site and
\* MonitorBasico.check_site give, for the same site and the same outcome of the
\* request, the same is_up.
C36_ProbesClassifyAlike ==
    (Returned /\ retry_count = 1) =>
        /\ SimpleMonitorCheckSite(Cfg, outcomes[1]).is_up = result.is_up
        /\ MonitorBasicoCheckSite(Cfg, outcomes[1]).is_up = result.is_up

====
